---- MODULE Spec2Model ----
(***************************************************************************)
(* Model of app.py: the movie-review catalog.                              *)
(*                                                                         *)
(*   - the summarizer  get_top_words / preprocess_text                     *)
(*   - the aggregator  process_movie_data                                  *)
(*   - the startup sequence create_tables ; load_and_process_data          *)
(*   - the read endpoints get_movies / get_movie                           *)
(*                                                                         *)
(* Strings of the source that are not ASCII are written in ASCII here:     *)
(*   "positive" is the label '긍정', "negative" is the label '부정',       *)
(*   the review key '리뷰내용' is the field text, '감정' the field label,  *)
(*   '리뷰' the field reviews, '영화명' the field title,                   *)
(*   the column default '없음' is "none".                                  *)
(***************************************************************************)
EXTENDS Integers, Sequences, FiniteSets, TLC

(***************************************************************************)
(* Bounds of the model.                                                    *)
(***************************************************************************)
MaxTextLen  == 2   \* raw tokens per review text (summarizer inputs)
MaxSumRevs  == 2   \* reviews per call of get_top_words
MaxN        == 3   \* largest n given to get_top_words
MaxAggRevs  == 3   \* reviews per call of process_movie_data
MaxMovies   == 2   \* movies in data.json
MaxReviews  == 2   \* reviews per movie in data.json
MaxStartups == 2   \* runs of the program over the same store
MaxRequests == 2   \* requests served by one run

(***************************************************************************)
(* Program constants.                                                      *)
(***************************************************************************)
DefaultTopN == 10  \* get_top_words(reviews, n=10)
NotFound    == 404 \* HTTPException(status_code=404)
OK          == 200

(***************************************************************************)
(* Texts.  A review text is a sequence of raw tokens; the morphological    *)
(* analyzer (Okt) is a fixed table from a raw token to its stem and its    *)
(* grammatical category.  "!" is a character that is neither a word        *)
(* character nor whitespace.                                               *)
(***************************************************************************)
RawTokens == {"movie", "good", "see", "saw", "very", "!"}

Punctuation == {"!"}

Stem(w) == IF w = "saw" THEN "see" ELSE w

Pos(w) ==
  CASE w = "movie" -> "Noun"
    [] w = "good"  -> "Adjective"
    [] w = "see"   -> "Verb"
    [] w = "saw"   -> "Verb"
    [] w = "very"  -> "Adverb"
    [] OTHER       -> "Punctuation"

\* A review without the key of its text.
Missing == <<"<missing>">>

SeqsUpTo(S, n) == UNION {[1..m -> S] : m \in 0..n}

RECURSIVE SelectSeq2(_, _)
\* the subsequence of s of the elements of the set S
SelectSeq2(s, S) ==
  IF s = <<>> THEN <<>>
  ELSE IF Head(s) \in S THEN <<Head(s)>> \o SelectSeq2(Tail(s), S)
       ELSE SelectSeq2(Tail(s), S)

\* re.sub(r'[^\w\s]', '', text)
StripPunctuation(text) == SelectSeq2(text, RawTokens \ Punctuation)

\* okt.pos(text, stem=True): the (word, pos) pairs of the text
OktPos(text) == [i \in 1..Len(text) |-> <<Stem(text[i]), Pos(text[i])>>]

RetainedPos == {"Noun", "Adjective", "Verb"}

RECURSIVE FilterRetained(_)
FilterRetained(tagged) ==
  IF tagged = <<>> THEN <<>>
  ELSE IF Head(tagged)[2] \in RetainedPos
       THEN <<Head(tagged)[1]>> \o FilterRetained(Tail(tagged))
       ELSE FilterRetained(Tail(tagged))

preprocess_text(text) == FilterRetained(OktPos(StripPunctuation(text)))

\* review['text'] raises KeyError for a review without the key
RaisesKeyError(reviews) == \E i \in 1..Len(reviews) : reviews[i].text = Missing

RECURSIVE AllWords(_)
\* all_words after the loop of get_top_words
AllWords(reviews) ==
  IF reviews = <<>> THEN <<>>
  ELSE preprocess_text(Head(reviews).text) \o AllWords(Tail(reviews))

\* Counter(all_words)[w]
Count(words, w) == Cardinality({i \in 1..Len(words) : words[i] = w})

RECURSIVE CounterKeys(_, _)
\* the keys of Counter(all_words), in the order of their first insertion
CounterKeys(words, seen) ==
  IF words = <<>> THEN <<>>
  ELSE IF Head(words) \in seen THEN CounterKeys(Tail(words), seen)
       ELSE <<Head(words)>> \o CounterKeys(Tail(words), seen \cup {Head(words)})

\* FirstMax with ties between equal counts going to the key inserted last
FirstMax_lastTie(keys, words) ==
  CHOOSE i \in 1..Len(keys) :
    /\ \A j \in 1..Len(keys) : Count(words, keys[j]) <= Count(words, keys[i])
    /\ \A j \in (i+1)..Len(keys) : Count(words, keys[j]) < Count(words, keys[i])

\* index of the first key with the largest count
FirstMax(keys, words) ==
  CHOOSE i \in 1..Len(keys) :
    /\ \A j \in 1..Len(keys) : Count(words, keys[j]) <= Count(words, keys[i])
    /\ \A j \in 1..(i-1) : Count(words, keys[j]) < Count(words, keys[i])

Remove(s, i) == [j \in 1..(Len(s)-1) |-> IF j < i THEN s[j] ELSE s[j+1]]

RECURSIVE MostCommonRec(_, _, _)
MostCommonRec(keys, words, n) ==
  IF n = 0 \/ keys = <<>> THEN <<>>
  ELSE LET i == FirstMax(keys, words)
       IN <<keys[i]>> \o MostCommonRec(Remove(keys, i), words, n - 1)

\* most_common returning one key more than asked
most_common_oneMore(words, n) == MostCommonRec(CounterKeys(words, {}), words, n + 1)

\* word_counts.most_common(n): the n keys of largest count, largest first,
\* keys of equal count in the order first encountered
most_common(words, n) == MostCommonRec(CounterKeys(words, {}), words, n)

Separator == ", "

RECURSIVE Join(_)
\* ', '.join(ws): the pieces of the joined string
Join(ws) ==
  IF ws = <<>> THEN <<>>
  ELSE IF Len(ws) = 1 THEN ws
       ELSE <<Head(ws), Separator>> \o Join(Tail(ws))

\* the value get_top_words returns when it raises nothing
get_top_words(reviews, n) == Join(most_common(AllWords(reviews), n))

\* the comma-separated entries of a joined string
Entries(str) == SelectSeq2(str, {str[i] : i \in 1..Len(str)} \ {Separator})

(***************************************************************************)
(* The aggregator.  A ratio is the pair <<numerator, denominator>> of the  *)
(* quotient the code computes; the integer 0 of the else branch is <<0, 1>>.*)
(***************************************************************************)
RECURSIVE WithLabel(_, _)
\* [review for review in movie_data['reviews'] if review['label'] in labels]
WithLabel(reviews, labels) ==
  IF reviews = <<>> THEN <<>>
  ELSE IF Head(reviews).label \in labels
       THEN <<Head(reviews)>> \o WithLabel(Tail(reviews), labels)
       ELSE WithLabel(Tail(reviews), labels)

positive_reviews(movie_data) == WithLabel(movie_data.reviews, {"positive"})

\* negative_reviews taking every review that is not positive
negative_reviews_notPositive(movie_data) ==
  WithLabel(movie_data.reviews, {"negative", "other"})

negative_reviews(movie_data) == WithLabel(movie_data.reviews, {"negative"})

\* total_reviews counting every review of the movie
total_reviews_all(movie_data) == Len(movie_data.reviews)

total_reviews(movie_data) ==
  Len(positive_reviews(movie_data)) + Len(negative_reviews(movie_data))

\* len(group) / total_reviews if total_reviews > 0 else 0
Ratio(count, total) == IF total > 0 THEN <<count, total>> ELSE <<0, 1>>

\* only the positive reviews are read for their text
ProcessRaises_positiveOnly(movie_data) ==
  RaisesKeyError(positive_reviews(movie_data))

\* process_movie_data raises the KeyError of get_top_words
ProcessRaises(movie_data) ==
  \/ RaisesKeyError(positive_reviews(movie_data))
  \/ RaisesKeyError(negative_reviews(movie_data))

\* the value process_movie_data returns when it raises nothing
process_movie_data(movie_data) ==
  [positive_summary |-> get_top_words(positive_reviews(movie_data), DefaultTopN),
   negative_summary |-> get_top_words(negative_reviews(movie_data), DefaultTopN),
   positive_ratio   |-> Ratio(Len(positive_reviews(movie_data)), total_reviews(movie_data)),
   negative_ratio   |-> Ratio(Len(negative_reviews(movie_data)), total_reviews(movie_data))]

VARIABLES
  sum_reviews, sum_n, sum_pc, sum_out,   \* a call of get_top_words
  agg_movie, agg_pc, agg_out,            \* a call of process_movie_data
  data,          \* the content of data.json
  tables,        \* the tables exist in movie_database.db
  store,         \* the committed rows of the tables movies and reviews
  session,       \* the rows the session of load_and_process_data has added
  pc,            \* where the program is
  k,             \* index in data of the movie the loop is at
  open_handles,  \* sessions of this process opened and not closed
  response,      \* what the last request was answered with
  nreq,          \* requests this process has served
  startups       \* how often the program has been started

sumvars == <<sum_reviews, sum_n, sum_pc, sum_out>>

aggvars == <<agg_movie, agg_pc, agg_out>>

appvars == <<data, tables, store, session, pc, k, open_handles, response, nreq, startups>>

vars == <<sum_reviews, sum_n, sum_pc, sum_out, agg_movie, agg_pc, agg_out,
          data, tables, store, session, pc, k, open_handles, response, nreq, startups>>

Labels == {"positive", "negative", "other"}

NoOutput == [positive_summary |-> <<>>, negative_summary |-> <<>>,
             positive_ratio |-> <<0, 1>>, negative_ratio |-> <<0, 1>>]

IdleSum == sum_reviews = <<>> /\ sum_n = 1 /\ sum_pc = "idle" /\ sum_out = <<>>

IdleAgg ==
  /\ agg_movie = [title |-> "none", reviews |-> <<>>]
  /\ agg_pc = "idle"
  /\ agg_out = NoOutput

EmptyStore == [movies |-> <<>>, reviews |-> <<>>]

NoResponse == [kind |-> "none"]

IdleApp ==
  /\ data = <<>>
  /\ tables = FALSE
  /\ store = EmptyStore
  /\ session = EmptyStore
  /\ pc = "off"
  /\ k = 0
  /\ open_handles = 0
  /\ response = NoResponse
  /\ nreq = 0
  /\ startups = 0

(***************************************************************************)
(* Calls of get_top_words.                                                 *)
(***************************************************************************)
SumTexts == SeqsUpTo(RawTokens, MaxTextLen) \cup {Missing}

SumReview == [label : {"positive"}, text : SumTexts]

InitSum ==
  /\ sum_reviews \in SeqsUpTo(SumReview, MaxSumRevs)
  /\ sum_n \in 1..MaxN
  /\ sum_pc = "called"
  /\ sum_out = <<>>
  /\ IdleAgg
  /\ IdleApp

CallGetTopWords ==
  /\ sum_pc = "called"
  /\ IF RaisesKeyError(sum_reviews)
     THEN sum_pc' = "raised" /\ sum_out' = <<>>
     ELSE sum_pc' = "returned" /\ sum_out' = get_top_words(sum_reviews, sum_n)
  /\ UNCHANGED <<sum_reviews, sum_n>>
  /\ UNCHANGED <<aggvars, appvars>>

NextSum == CallGetTopWords

SpecSum == InitSum /\ [][NextSum]_vars

(***************************************************************************)
(* Calls of process_movie_data.                                            *)
(***************************************************************************)
AggTexts == {<<"good", "movie">>, <<"very", "!">>, Missing}

AggReview == [label : Labels, text : AggTexts]

InitAgg ==
  /\ agg_movie \in [title : {"A"}, reviews : SeqsUpTo(AggReview, MaxAggRevs)]
  /\ agg_pc = "called"
  /\ agg_out = NoOutput
  /\ IdleSum
  /\ IdleApp

CallProcessMovieData ==
  /\ agg_pc = "called"
  /\ IF ProcessRaises(agg_movie)
     THEN agg_pc' = "raised" /\ agg_out' = NoOutput
     ELSE agg_pc' = "returned" /\ agg_out' = process_movie_data(agg_movie)
  /\ UNCHANGED agg_movie
  /\ UNCHANGED <<sumvars, appvars>>

NextAgg == CallProcessMovieData

SpecAgg == InitAgg /\ [][NextAgg]_vars

(***************************************************************************)
(* The program: __main__ runs create_tables, then load_and_process_data,   *)
(* then serves get_movies and get_movie.  The database file outlives the   *)
(* process; the session and its uncommitted rows do not.                   *)
(*                                                                         *)
(* A row of movies keeps the columns id, title, age_limit and              *)
(* recommended_movies; the other columns are copied from data.json the way *)
(* title is.  An id is the rowid SQLite gives: one more than the largest   *)
(* id of the table.                                                        *)
(***************************************************************************)
AppTexts == {<<"good", "movie">>, Missing}

AppReview == [label : Labels, text : AppTexts]

\* the title of the i-th movie of data.json
TitleAt(i) == <<"title", i>>

\* Movie(title=movie_data['title'], ...) after db.add and db.flush
MovieRow(movie_data, id) ==
  [id |-> id, title |-> movie_data.title,
   age_limit |-> "none", recommended_movies |-> "none"]

\* summary rows written only for a class that has reviews
SummaryRows_observedOnly(processed, movie_id, next_id) ==
  IF processed.positive_ratio[1] > 0
  THEN <<[id |-> next_id, classification |-> "positive",
          ratio |-> processed.positive_ratio,
          summary |-> processed.positive_summary, movie_id |-> movie_id]>>
       \o (IF processed.negative_ratio[1] > 0
           THEN <<[id |-> next_id + 1, classification |-> "negative",
                   ratio |-> processed.negative_ratio,
                   summary |-> processed.negative_summary, movie_id |-> movie_id]>>
           ELSE <<>>)
  ELSE IF processed.negative_ratio[1] > 0
       THEN <<[id |-> next_id, classification |-> "negative",
               ratio |-> processed.negative_ratio,
               summary |-> processed.negative_summary, movie_id |-> movie_id]>>
       ELSE <<>>

\* positive_review and negative_review, added to the session in this order
SummaryRows(processed, movie_id, next_id) ==
  <<[id |-> next_id, classification |-> "positive",
     ratio |-> processed.positive_ratio,
     summary |-> processed.positive_summary, movie_id |-> movie_id],
    [id |-> next_id + 1, classification |-> "negative",
     ratio |-> processed.negative_ratio,
     summary |-> processed.negative_summary, movie_id |-> movie_id]>>

InitApp ==
  /\ \E rs \in SeqsUpTo(SeqsUpTo(AppReview, MaxReviews), MaxMovies) :
       data = [i \in 1..Len(rs) |-> [title |-> TitleAt(i), reviews |-> rs[i]]]
  /\ tables = FALSE
  /\ store = EmptyStore
  /\ session = EmptyStore
  /\ pc = "start"
  /\ k = 0
  /\ open_handles = 0
  /\ response = NoResponse
  /\ nreq = 0
  /\ startups = 1
  /\ IdleSum
  /\ IdleAgg

\* create_tables(): creates the tables unless the table movies exists
create_tables ==
  /\ pc = "start"
  /\ tables' = TRUE
  /\ pc' = "created"
  /\ UNCHANGED <<data, store, session, k, open_handles, response, nreq, startups>>
  /\ UNCHANGED <<sumvars, aggvars>>

\* load_and_process_data(): json.load and db = SessionLocal()
LoadOpen ==
  /\ pc = "created"
  /\ session' = EmptyStore
  /\ open_handles' = open_handles + 1
  /\ k' = 1
  /\ pc' = "loading"
  /\ UNCHANGED <<data, tables, store, response, nreq, startups>>
  /\ UNCHANGED <<sumvars, aggvars>>

\* one iteration of the loop with a commit of its own
LoadMovie_commitEach ==
  /\ pc = "loading"
  /\ k <= Len(data)
  /\ IF ProcessRaises(data[k])
     THEN /\ pc' = "failed"
          /\ session' = EmptyStore
          /\ open_handles' = 0
          /\ UNCHANGED <<k, store>>
     ELSE LET processed == process_movie_data(data[k])
              movie_id  == Len(store.movies) + 1
              review_id == Len(store.reviews) + 1
          IN /\ store' = [movies  |-> Append(store.movies, MovieRow(data[k], movie_id)),
                          reviews |-> store.reviews
                                        \o SummaryRows(processed, movie_id, review_id)]
             /\ k' = k + 1
             /\ UNCHANGED <<pc, open_handles, session>>
  /\ UNCHANGED <<data, tables, response, nreq, startups>>
  /\ UNCHANGED <<sumvars, aggvars>>

\* one iteration of the loop of load_and_process_data.  An exception leaves
\* the function and ends the process: what the session has added and
\* flushed is not committed and is lost.
LoadMovie ==
  /\ pc = "loading"
  /\ k <= Len(data)
  /\ IF ProcessRaises(data[k])
     THEN /\ pc' = "failed"
          /\ session' = EmptyStore
          /\ open_handles' = 0
          /\ UNCHANGED k
     ELSE LET processed == process_movie_data(data[k])
              movie_id  == Len(store.movies) + Len(session.movies) + 1
              review_id == Len(store.reviews) + Len(session.reviews) + 1
          IN /\ session' = [movies  |-> Append(session.movies, MovieRow(data[k], movie_id)),
                            reviews |-> session.reviews
                                          \o SummaryRows(processed, movie_id, review_id)]
             /\ k' = k + 1
             /\ UNCHANGED <<pc, open_handles>>
  /\ UNCHANGED <<data, tables, store, response, nreq, startups>>
  /\ UNCHANGED <<sumvars, aggvars>>

\* db.commit() and db.close() after the loop; __main__ then runs the server
LoadCommit ==
  /\ pc = "loading"
  /\ k = Len(data) + 1
  /\ store' = [movies  |-> store.movies \o session.movies,
               reviews |-> store.reviews \o session.reviews]
  /\ session' = EmptyStore
  /\ open_handles' = open_handles - 1
  /\ pc' = "serving"
  /\ UNCHANGED <<data, tables, k, response, nreq, startups>>
  /\ UNCHANGED <<sumvars, aggvars>>

RECURSIVE RowsOfMovie(_, _)
\* db.query(Review).filter(Review.movie_id == movie_id).all()
RowsOfMovie(rows, movie_id) ==
  IF rows = <<>> THEN <<>>
  ELSE IF Head(rows).movie_id = movie_id
       THEN <<Head(rows)>> \o RowsOfMovie(Tail(rows), movie_id)
       ELSE RowsOfMovie(Tail(rows), movie_id)

\* db.query(Movie).filter(Movie.id == movie_id).first() is not None
HasMovie(st, movie_id) == \E i \in 1..Len(st.movies) : st.movies[i].id = movie_id

FirstMovie(st, movie_id) ==
  st.movies[CHOOSE i \in 1..Len(st.movies) :
              /\ st.movies[i].id = movie_id
              /\ \A j \in 1..(i-1) : st.movies[j].id # movie_id]

ReviewJson(rows) ==
  [i \in 1..Len(rows) |-> [classification |-> rows[i].classification,
                           ratio |-> rows[i].ratio, summary |-> rows[i].summary]]

\* the body get_movie returns for a movie row (None has no attributes)
MovieBody(st, movie_id) ==
  [movie   |-> FirstMovie(st, movie_id),
   reviews |-> ReviewJson(RowsOfMovie(st.reviews, movie_id))]

\* get_movie answering for an absent id with an empty result
GetMovieResponse_emptyResult(st, movie_id) ==
  IF ~HasMovie(st, movie_id)
  THEN [kind |-> "get_movie", id |-> movie_id, status |-> OK,
        body |-> [movie |-> <<>>, reviews |-> <<>>]]
  ELSE [kind |-> "get_movie", id |-> movie_id, status |-> OK,
        body |-> MovieBody(st, movie_id)]

\* what get_movie answers: HTTPException(404) or the movie and its reviews
GetMovieResponse(st, movie_id) ==
  IF ~HasMovie(st, movie_id)
  THEN [kind |-> "get_movie", id |-> movie_id, status |-> NotFound,
        body |-> [detail |-> "Movie not found"]]
  ELSE [kind |-> "get_movie", id |-> movie_id, status |-> OK,
        body |-> MovieBody(st, movie_id)]

\* GET /movies
get_movies ==
  /\ pc = "serving"
  /\ nreq < MaxRequests
  /\ nreq' = nreq + 1
  /\ response' = [kind |-> "get_movies", status |-> OK,
                  body |-> [i \in 1..Len(store.movies) |->
                              [id |-> store.movies[i].id, title |-> store.movies[i].title]]]
  /\ UNCHANGED open_handles    \* db = SessionLocal() ... db.close()
  /\ UNCHANGED <<data, tables, store, session, pc, k, startups>>
  /\ UNCHANGED <<sumvars, aggvars>>

MaxId == MaxMovies * MaxStartups + 1

\* GET /movie/{movie_id}: db.close() is reached only when the movie exists
get_movie ==
  /\ pc = "serving"
  /\ nreq < MaxRequests
  /\ \E movie_id \in 0..MaxId :
       /\ response' = GetMovieResponse(store, movie_id)
       /\ open_handles' = IF HasMovie(store, movie_id)
                          THEN open_handles
                          ELSE open_handles + 1
  /\ nreq' = nreq + 1
  /\ UNCHANGED <<data, tables, store, session, pc, k, startups>>
  /\ UNCHANGED <<sumvars, aggvars>>

\* the program is started again over the same movie_database.db and data.json
Restart ==
  /\ pc \in {"serving", "failed"}
  /\ startups < MaxStartups
  /\ startups' = startups + 1
  /\ pc' = "start"
  /\ k' = 0
  /\ session' = EmptyStore
  /\ open_handles' = 0
  /\ response' = NoResponse
  /\ nreq' = 0
  /\ UNCHANGED <<data, tables, store>>
  /\ UNCHANGED <<sumvars, aggvars>>

Init == InitApp

Next ==
  \/ create_tables
  \/ LoadOpen
  \/ LoadMovie
  \/ LoadCommit
  \/ get_movies
  \/ get_movie
  \/ Restart

Spec == Init /\ [][Next]_vars

(***************************************************************************)
(* Properties of the summarizer.                                           *)
(***************************************************************************)
Min(a, b) == IF a < b THEN a ELSE b

\* the stems of the tokens of the texts that are a noun, adjective or verb
RetainedSet(reviews) ==
  UNION {{Stem(reviews[i].text[j]) : j \in
            {m \in 1..Len(reviews[i].text) :
               /\ reviews[i].text[m] \notin Punctuation
               /\ Pos(reviews[i].text[m]) \in RetainedPos}} : i \in 1..Len(reviews)}

\* C8: get_top_words(reviews, n) returns at most n comma-separated entries,
\* all distinct, each a token retained by the noun/adjective/verb filter,
\* exactly min(n, number of distinct retained tokens) of them; it returns
\* the empty string for an empty review list and when no token is retained.
C8_TopWordsEntries ==
  sum_pc = "returned" =>
    LET e == Entries(sum_out)
        R == RetainedSet(sum_reviews)
    IN /\ Len(e) <= sum_n
       /\ \A i, j \in 1..Len(e) : e[i] = e[j] => i = j
       /\ \A i \in 1..Len(e) : e[i] \in R
       /\ Len(e) = Min(sum_n, Cardinality(R))
       /\ sum_reviews = <<>> => sum_out = <<>>
       /\ R = {} => sum_out = <<>>

\* more distinct retained tokens than n: the result is cut after n entries
C8_Witness ==
  /\ sum_pc = "returned"
  /\ Cardinality(RetainedSet(sum_reviews)) > sum_n
  /\ Len(Entries(sum_out)) = sum_n
  /\ Len(sum_out) = 2 * sum_n - 1

FirstIndex(words, w) == CHOOSE i \in 1..Len(words) :
  words[i] = w /\ \A j \in 1..(i-1) : words[j] # w

\* a ranks before b: more frequent, or as frequent and first seen earlier
RanksBefore(words, a, b) ==
  \/ Count(words, a) > Count(words, b)
  \/ /\ Count(words, a) = Count(words, b)
     /\ FirstIndex(words, a) < FirstIndex(words, b)

\* C9: the entries are in descending frequency over all texts together;
\* of two tokens of equal count the one that first appears earlier in the
\* concatenated token sequence comes first, also at the cut after n entries.
C9_FirstOccurrenceTieBreak ==
  sum_pc = "returned" =>
    LET e == Entries(sum_out)
        W == AllWords(sum_reviews)
        inE == {e[i] : i \in 1..Len(e)}
    IN /\ \A i, j \in 1..Len(e) : i < j => RanksBefore(W, e[i], e[j])
       /\ \A w \in RetainedSet(sum_reviews) \ inE :
            \A i \in 1..Len(e) : RanksBefore(W, e[i], w)

\* a tie at the cut: a token left out is as frequent as one that is in
C9_Witness ==
  /\ sum_pc = "returned"
  /\ LET e == Entries(sum_out)
         W == AllWords(sum_reviews)
     IN \E i \in 1..Len(e) :
          \E w \in RetainedSet(sum_reviews) \ {e[m] : m \in 1..Len(e)} :
            Count(W, e[i]) = Count(W, w)

(***************************************************************************)
(* Properties of the aggregator.                                           *)
(***************************************************************************)
\* the ratios r1 and r2 sum to 1
SumIsOne(r1, r2) == r1[1] * r2[2] + r2[1] * r1[2] = r1[2] * r2[2]

\* the ratios r1 and r2 sum to 0
SumIsZero(r1, r2) == r1[1] * r2[2] + r2[1] * r1[2] = 0

\* the ratio r is the quotient a / b
IsQuotient(r, a, b) == r[1] * b = a * r[2]

NumWithLabel(reviews, l) == Cardinality({i \in 1..Len(reviews) : reviews[i].label = l})

\* C5 as stated: the ratios sum to 1.0 for every non-empty review list,
\* lists with a label other than positive or negative included, and to 0
\* for the empty list.
C5_AsStated ==
  agg_pc = "returned" =>
    IF agg_movie.reviews # <<>>
    THEN SumIsOne(agg_out.positive_ratio, agg_out.negative_ratio)
    ELSE SumIsZero(agg_out.positive_ratio, agg_out.negative_ratio)

\* C5 amended: the ratios sum to 1.0 when the list holds at least one
\* positive or negative review, and to 0 otherwise (the empty list, and a
\* list of reviews that all carry another label).
C5_RatiosSum ==
  agg_pc = "returned" =>
    IF \E i \in 1..Len(agg_movie.reviews) :
         agg_movie.reviews[i].label \in {"positive", "negative"}
    THEN SumIsOne(agg_out.positive_ratio, agg_out.negative_ratio)
    ELSE SumIsZero(agg_out.positive_ratio, agg_out.negative_ratio)

\* a list with a positive, a negative and another label has been aggregated
C5_Witness ==
  /\ agg_pc = "returned"
  /\ \A l \in Labels : NumWithLabel(agg_movie.reviews, l) = 1
  /\ agg_out.positive_ratio = <<1, 2>>
  /\ agg_out.negative_ratio = <<1, 2>>

OutputGroups == {"positive", "negative"}

GroupRatio(out, l) == IF l = "positive" THEN out.positive_ratio ELSE out.negative_ratio

\* C6 as stated: every label of the list, an unexpected one too, is a group
\* of the result, and the ratio of a group is its size over the size of the
\* whole review list, 0 for the empty list.
C6_AsStated ==
  agg_pc = "returned" =>
    /\ \A i \in 1..Len(agg_movie.reviews) : agg_movie.reviews[i].label \in OutputGroups
    /\ \A l \in OutputGroups :
         IF agg_movie.reviews = <<>>
         THEN GroupRatio(agg_out, l)[1] = 0
         ELSE IsQuotient(GroupRatio(agg_out, l),
                         NumWithLabel(agg_movie.reviews, l), Len(agg_movie.reviews))

\* C6 amended: the groups are the positive and the negative reviews only; a
\* review with another label is in no group and is not counted; the ratio of
\* a group is its size over the number of positive and negative reviews
\* together, 0 for both groups when there is no such review.
C6_RatioOverPositiveAndNegative ==
  agg_pc = "returned" =>
    LET p == NumWithLabel(agg_movie.reviews, "positive")
        q == NumWithLabel(agg_movie.reviews, "negative")
    IN \A l \in OutputGroups :
         IF p + q = 0
         THEN GroupRatio(agg_out, l)[1] = 0
         ELSE /\ GroupRatio(agg_out, l)[2] > 0
              /\ IsQuotient(GroupRatio(agg_out, l),
                            NumWithLabel(agg_movie.reviews, l), p + q)

\* two positive reviews and one of another label: the positive ratio is 1
C6_Witness ==
  /\ agg_pc = "returned"
  /\ NumWithLabel(agg_movie.reviews, "positive") = 2
  /\ NumWithLabel(agg_movie.reviews, "other") = 1
  /\ agg_out.positive_ratio = <<2, 2>>
  /\ agg_out.negative_ratio = <<0, 2>>

(***************************************************************************)
(* Properties of the program.                                              *)
(***************************************************************************)
\* C1 as stated: after every startup over the same data.json with N movies
\* the table movies holds exactly N rows and the table reviews exactly 2N
\* rows: the second and later startups import nothing.
C1_AsStated ==
  pc = "serving" =>
    /\ Len(store.movies) = Len(data)
    /\ Len(store.reviews) = 2 * Len(data)

\* C2 as stated: when load_and_process_data fails at movie K, the store
\* holds movies 1..K-1, each with both of its summary rows, and no row of
\* movie K.
C2_AsStated ==
  pc = "failed" =>
    /\ Len(store.movies) = k - 1
    /\ \A j \in 1..(k-1) :
         /\ store.movies[j].title = data[j].title
         /\ Len(RowsOfMovie(store.reviews, store.movies[j].id)) = 2

\* C2 amended: the whole run is the atomic unit, committed once after the
\* last movie: when load_and_process_data fails at movie K, the store holds
\* no row of movie K and no row of movies 1..K-1 either; nothing the run
\* has added is kept.
C2_RunIsAtomic ==
  pc = "failed" =>
    /\ store = EmptyStore
    /\ session = EmptyStore

\* the run failed at the second movie or later, after it had added the first
C2_Witness == pc = "failed" /\ k >= 2 /\ store = EmptyStore

\* C3 as stated: between requests no store handle is open, whatever the
\* requests were, get_movie for absent ids included.
C3_AsStated == pc = "serving" => open_handles = 0

\* the response is the one the claim describes for the store st
GetMovieAnswer(st, r) ==
  IF \E i \in 1..Len(st.movies) : st.movies[i].id = r.id
  THEN /\ r.status = OK
       /\ \E i \in 1..Len(st.movies) :
            st.movies[i].id = r.id /\ r.body.movie = st.movies[i]
       /\ LET ix == {i \in 1..Len(st.reviews) : st.reviews[i].movie_id = r.id}
          IN /\ Len(r.body.reviews) = Cardinality(ix)
             /\ \A i \in ix : \E j \in 1..Len(r.body.reviews) :
                  r.body.reviews[j] =
                    [classification |-> st.reviews[i].classification,
                     ratio |-> st.reviews[i].ratio,
                     summary |-> st.reviews[i].summary]
  ELSE r.status = NotFound

\* C4: get_movie answers 404 for an id that is not in the store, never a
\* normal response; for an id in the store it answers with that movie's
\* metadata and exactly the summary rows of that movie; get_movies and
\* get_movie leave the store as it is.
C4_GetMovie ==
  [][nreq' = nreq + 1 =>
       /\ store' = store
       /\ tables' = tables
       /\ response'.kind = "get_movie" => GetMovieAnswer(store, response')]_vars

\* an absent id has been asked of a store that holds movies
C4_Witness ==
  /\ pc = "serving"
  /\ response.kind = "get_movie"
  /\ response.status = NotFound
  /\ store.movies # <<>>
  /\ ~HasMovie(store, response.id)

\* the movie of data.json the i-th row of movies was made from
SourceOf(i) == data[((i - 1) % Len(data)) + 1]

\* C7: every movie in the store has exactly one positive and exactly one
\* negative summary row under its id; a class without reviews has ratio 0
\* and the empty summary; an empty review list gives ratio 0 and the empty
\* summary for both classes.
C7_TwoSummaryRows ==
  \A i \in 1..Len(store.movies) :
    LET rows == RowsOfMovie(store.reviews, store.movies[i].id)
        src  == SourceOf(i)
    IN /\ Len(rows) = 2
       /\ \A c \in {"positive", "negative"} :
            /\ Cardinality({j \in 1..2 : rows[j].classification = c}) = 1
            /\ NumWithLabel(src.reviews, c) = 0 =>
                 \A j \in 1..2 : rows[j].classification = c =>
                   rows[j].ratio[1] = 0 /\ rows[j].summary = <<>>

\* a movie without reviews and a movie with only positive reviews are stored
C7_Witness ==
  /\ pc = "serving"
  /\ \E i \in 1..Len(store.movies) : SourceOf(i).reviews = <<>>
  /\ \E i \in 1..Len(store.movies) :
       /\ NumWithLabel(SourceOf(i).reviews, "positive") > 0
       /\ NumWithLabel(SourceOf(i).reviews, "negative") = 0

\* data.json has a review without text whose label is in the set labels
HasReviewWithoutText(labels) ==
  \E j \in 1..Len(data) : \E i \in 1..Len(data[j].reviews) :
    /\ data[j].reviews[i].text = Missing
    /\ data[j].reviews[i].label \in labels

\* C10 as stated: a review without text, whatever its label, makes the run
\* fail: the load never completes and nothing is persisted.
C10_AsStated ==
  HasReviewWithoutText(Labels) => pc # "serving" /\ store = EmptyStore

\* C10 amended: a review without text that is labelled positive or negative
\* makes the run fail: the load never completes and no row is persisted; a
\* review without text that carries another label is never read and is
\* skipped.
C10_MissingTextFails ==
  /\ HasReviewWithoutText({"positive", "negative"}) =>
       pc # "serving" /\ store = EmptyStore
  /\ pc = "failed" =>
       \E i \in 1..Len(data[k].reviews) :
         /\ data[k].reviews[i].text = Missing
         /\ data[k].reviews[i].label \in {"positive", "negative"}
  /\ (pc = "loading" /\ k > 1) =>
       \A i \in 1..Len(data[k-1].reviews) :
         data[k-1].reviews[i].text = Missing => data[k-1].reviews[i].label = "other"

\* the run has failed at a movie whose negative review has no text
C10_Witness ==
  /\ pc = "failed"
  /\ \E i \in 1..Len(data[k].reviews) :
       data[k].reviews[i].text = Missing /\ data[k].reviews[i].label = "negative"

====
